---- MODULE Spec2Model ----
(***************************************************************************)
(* Ollama chat UI: the conversation view (src/app/page.tsx), the           *)
(* completion relay (src/app/api/chat/route.ts) and the model catalog      *)
(* fetcher (the GET route handler).                                        *)
(*                                                                         *)
(* Strings are sequences of tokens.  A token is either one character of a  *)
(* user-typed text (" " or "a") or a literal fragment of a message the     *)
(* code builds.  An optional value is a sequence of length 0 (absent) or 1.*)
(***************************************************************************)
EXTENDS Integers, Sequences, FiniteSets, TLC

VARIABLES
  models,            \* page.tsx:72  the catalog as the view holds it
  selectedModel,     \* page.tsx:73  "" while none is selected
  chatInput,         \* page.tsx:74  the text of the textarea
  messages,          \* page.tsx:75  sequence of [text, sender]; id and timestamp are not modelled
  loadingModels,     \* page.tsx:76
  errorModels,       \* page.tsx:77  None for null
  isSendingMessage,  \* page.tsx:78
  modelsCall,        \* page.tsx:87  the fetch of /api/models and its answer
  chatCalls          \* page.tsx:131 the calls of /api/chat that are in flight, with
                     \*              the relay's position in each (route.ts:12-57)

vars == <<models, selectedModel, chatInput, messages, loadingModels,
          errorModels, isSendingMessage, modelsCall, chatCalls>>

viewVars == <<models, selectedModel, chatInput, messages, loadingModels,
              errorModels, isSendingMessage>>

-----------------------------------------------------------------------------
(* Bounds *)

MaxSends == 2

-----------------------------------------------------------------------------
(* Values *)

None == <<>>

Some(x) == <<x>>

(* Texts the user can put in the textarea: empty, whitespace only, plain,   *)
(* and padded with whitespace on both sides.                               *)
Inputs == { <<>>, <<" ">>, <<"a">>, <<" ", "a", " ">> }

IsWhitespace(c) == c = " "

RECURSIVE TrimStart(_)
TrimStart(s) ==
  IF s # <<>> /\ IsWhitespace(Head(s)) THEN TrimStart(Tail(s)) ELSE s

RECURSIVE TrimEnd(_)
TrimEnd(s) ==
  IF s # <<>> /\ IsWhitespace(s[Len(s)]) THEN TrimEnd(SubSeq(s, 1, Len(s) - 1)) ELSE s

Trim(s) == TrimEnd(TrimStart(s))

includes(s, tok) == \E i \in DOMAIN s : s[i] = tok

Remove(s, i) == SubSeq(s, 1, i - 1) \o SubSeq(s, i + 1, Len(s))

IsPrefix(s, t) == Len(s) <= Len(t) /\ SubSeq(t, 1, Len(s)) = s

-----------------------------------------------------------------------------
(* The backend (the ollama server behind the client library) *)

BackendModels ==
  [llama3 |-> [name |-> "llama3", size |-> [mib |-> 2048, rem |-> 0]],
   phi3   |-> [name |-> "phi3",   size |-> [mib |-> 2282, rem |-> 377487]]]

BackendCatalogs ==
  { <<>>,
    <<BackendModels.llama3>>,
    <<BackendModels.llama3, BackendModels.phi3>> }

ListErrors == { <<"connect ECONNREFUSED">>, <<"500 Internal Server Error">> }

(* Sizes for the check of the size rendering on its own: around the        *)
(* rounding steps of 0.005 GB (5 MiB + 125829.12 bytes), ties (128 MiB),    *)
(* and the whole gigabytes.                                                 *)
SizeMiBs == { 0, 1, 5, 10, 15, 46, 128, 384, 1023, 1024, 1029, 2047, 2048, 2282, 4096, 40960 }

SizeRems == { 0, 1, 125829, 125830, 377487, 524288, 1048575 }

SizeCatalogs ==
  { <<[name |-> "llama3", size |-> [mib |-> q, rem |-> r]]>> : q \in SizeMiBs, r \in SizeRems }

ChatCompletions == { <<>>, <<"hello">> }

ChatErrors == { <<"connect ECONNREFUSED">>, <<"404 Not Found">>, <<"boom">> }

NetworkErrors == { <<"Failed to fetch">>, <<>> }

(* What fetchModels can catch always has a message: the TypeError of a      *)
(* rejected fetch, or the Error it throws itself on a non-2xx answer.       *)
ModelsNetworkErrors == { <<"Failed to fetch">> }

-----------------------------------------------------------------------------
(* Model catalog fetcher: GET /api/models *)

Digit(d) == ToString(d)

toFixed2GBTruncates(size) ==
  LET n == (size.mib * 100 + (size.rem * 100) \div 1048576) \div 1024
  IN  <<ToString(n \div 100), ".", Digit((n % 100) \div 10), Digit(n % 10)>>

(* A size in bytes is mib * 2^20 + rem with rem < 2^20 (2147483648 itself   *)
(* is beyond the integers of the checker).  The division by 1024^3 is exact *)
(* in a double, and toFixed(2) takes the nearest hundredth, the larger one  *)
(* on a tie: n = floor((100 * bytes + 2^29) / 2^30).                        *)
toFixed2GB(size) ==
  LET n == (size.mib * 100 + (size.rem * 100) \div 1048576 + 512) \div 1024
  IN  <<ToString(n \div 100), ".", Digit((n % 100) \div 10), Digit(n % 10)>>

mapModel(model) == [name |-> model.name, size |-> toFixed2GB(model.size) \o <<" GB">>]

mapModels(ms) == [i \in DOMAIN ms |-> mapModel(ms[i])]

ModelsOk(ms) == [status |-> 200, models |-> Some(mapModels(ms)), message |-> None, error |-> None]

ModelsFailedDropsError(err) ==
  [status |-> 500, models |-> None,
   message |-> Some(<<"Failed to retrieve Ollama models">>), error |-> None]

ModelsFailed(err) ==
  [status |-> 500, models |-> None,
   message |-> Some(<<"Failed to retrieve Ollama models">>), error |-> Some(err)]

(* The handler with ollama.list() answering one of `catalogs` or throwing.   *)
(* listed and thrown are the handler's locals `models` and `error`;         *)
(* listCalls counts the calls of ollama.list().                             *)
GETFrom(catalogs) ==
  /\ modelsCall.stage = "sent"
  /\ \/ \E ms \in catalogs :
          modelsCall' = [modelsCall EXCEPT !.stage = "responded", !.listCalls = @ + 1,
                           !.listed = Some(ms), !.resp = Some(ModelsOk(ms))]
     \/ \E e \in ListErrors :
          modelsCall' = [modelsCall EXCEPT !.stage = "responded", !.listCalls = @ + 1,
                           !.thrown = Some(e), !.resp = Some(ModelsFailed(e))]
  /\ UNCHANGED <<viewVars, chatCalls>>

GET == GETFrom(BackendCatalogs)

ModelsNetworkError ==
  /\ modelsCall.stage = "sent"
  /\ \E e \in ModelsNetworkErrors :
       modelsCall' = [modelsCall EXCEPT !.stage = "failed", !.err = Some(e)]
  /\ UNCHANGED <<viewVars, chatCalls>>

-----------------------------------------------------------------------------
(* Conversation view: fetchModels (the mount effect) *)

Names(ms) == {ms[i].name : i \in DOMAIN ms}

fetchModelsDefaultsToLlama3 ==
  /\ modelsCall.stage \in {"responded", "failed"}
  /\ modelsCall' = [modelsCall EXCEPT !.stage = "done", !.resp = None, !.err = None,
                                      !.listed = None, !.thrown = None]
  /\ IF modelsCall.stage = "failed"
       THEN /\ errorModels' = Some(modelsCall.err[1])
            /\ UNCHANGED <<models, selectedModel>>
       ELSE LET response == modelsCall.resp[1] IN
            IF response.status # 200
              THEN /\ errorModels' = Some(<<"HTTP error! status: ", ToString(response.status)>>)
                   /\ UNCHANGED <<models, selectedModel>>
              ELSE LET data == response.models[1] IN
                   /\ models' = data
                   /\ selectedModel' = IF Len(data) > 0 THEN data[1].name ELSE "llama3"
                   /\ UNCHANGED errorModels
  /\ loadingModels' = FALSE
  /\ UNCHANGED <<chatInput, messages, isSendingMessage, chatCalls>>

fetchModelsSwallowsHttpError ==
  /\ modelsCall.stage \in {"responded", "failed"}
  /\ modelsCall' = [modelsCall EXCEPT !.stage = "done", !.resp = None, !.err = None,
                                      !.listed = None, !.thrown = None]
  /\ IF modelsCall.stage = "failed"
       THEN /\ errorModels' = Some(modelsCall.err[1])
            /\ UNCHANGED <<models, selectedModel>>
       ELSE LET response == modelsCall.resp[1] IN
            IF response.status # 200
              THEN UNCHANGED <<models, selectedModel, errorModels>>
              ELSE LET data == response.models[1] IN
                   /\ models' = data
                   /\ selectedModel' = IF Len(data) > 0 THEN data[1].name ELSE selectedModel
                   /\ UNCHANGED errorModels
  /\ loadingModels' = FALSE
  /\ UNCHANGED <<chatInput, messages, isSendingMessage, chatCalls>>

fetchModelsSelectsLast ==
  /\ modelsCall.stage \in {"responded", "failed"}
  /\ modelsCall' = [modelsCall EXCEPT !.stage = "done", !.resp = None, !.err = None,
                                      !.listed = None, !.thrown = None]
  /\ IF modelsCall.stage = "failed"
       THEN /\ errorModels' = Some(modelsCall.err[1])
            /\ UNCHANGED <<models, selectedModel>>
       ELSE LET response == modelsCall.resp[1] IN
            IF response.status # 200
              THEN /\ errorModels' = Some(<<"HTTP error! status: ", ToString(response.status)>>)
                   /\ UNCHANGED <<models, selectedModel>>
              ELSE LET data == response.models[1] IN
                   /\ models' = data
                   /\ selectedModel' = IF Len(data) > 0 THEN data[Len(data)].name ELSE selectedModel
                   /\ UNCHANGED errorModels
  /\ loadingModels' = FALSE
  /\ UNCHANGED <<chatInput, messages, isSendingMessage, chatCalls>>

fetchModels ==
  /\ modelsCall.stage \in {"responded", "failed"}
  /\ modelsCall' = [modelsCall EXCEPT !.stage = "done", !.resp = None, !.err = None,
                                      !.listed = None, !.thrown = None]
  /\ IF modelsCall.stage = "failed"
       THEN /\ errorModels' = Some(modelsCall.err[1])
            /\ UNCHANGED <<models, selectedModel>>
       ELSE LET response == modelsCall.resp[1] IN
            IF response.status # 200
              THEN /\ errorModels' = Some(<<"HTTP error! status: ", ToString(response.status)>>)
                   /\ UNCHANGED <<models, selectedModel>>
              ELSE LET data == response.models[1] IN
                   /\ models' = data
                   /\ selectedModel' = IF Len(data) > 0 THEN data[1].name ELSE selectedModel
                   /\ UNCHANGED errorModels
  /\ loadingModels' = FALSE
  /\ UNCHANGED <<chatInput, messages, isSendingMessage, chatCalls>>

-----------------------------------------------------------------------------
(* Conversation view: what is rendered *)

(* if (errorModels): null and the empty string are both falsy *)
ModelsErrorRendered == ~loadingModels /\ errorModels # None /\ errorModels[1] # <<>>

ReadyRendered == ~loadingModels /\ ~ModelsErrorRendered

SelectOptions == IF Len(models) = 0 THEN {""} ELSE Names(models)

TextareaEnabledWhileSending == selectedModel = ""

TextareaDisabled == selectedModel = "" \/ isSendingMessage

ButtonDisabled == selectedModel = "" \/ Trim(chatInput) = <<>> \/ isSendingMessage

(* <select onChange> *)
SelectModel ==
  /\ ReadyRendered
  /\ \E v \in SelectOptions : selectedModel' = v
  /\ UNCHANGED <<models, chatInput, messages, loadingModels, errorModels,
                 isSendingMessage, modelsCall, chatCalls>>

(* <textarea onChange> *)
TypeInput ==
  /\ ReadyRendered
  /\ ~TextareaDisabled
  /\ \E s \in Inputs : chatInput' = s
  /\ UNCHANGED <<models, selectedModel, messages, loadingModels, errorModels,
                 isSendingMessage, modelsCall, chatCalls>>

-----------------------------------------------------------------------------
(* Conversation view: handleSendMessage, up to its await *)

ViewCalls == {i \in DOMAIN chatCalls : chatCalls[i].origin = "view"}

UserCount == Cardinality({i \in DOMAIN messages : messages[i].sender = "user"})

DirectCalls == {i \in DOMAIN chatCalls : chatCalls[i].origin = "direct"}

NewCall(origin, body) ==
  [origin |-> origin, body |-> body, stage |-> "sent",
   backendReq |-> None, content |-> None, thrown |-> None, resp |-> None]

JsonBody(model, prompt) == [json |-> "object", model |-> model, prompt |-> prompt]

handleSendMessageNoTrim ==
  IF chatInput = <<>> \/ selectedModel = ""
    THEN UNCHANGED vars
    ELSE LET userMessage == [text |-> chatInput, sender |-> "user"] IN
         /\ messages' = Append(messages, userMessage)
         /\ chatInput' = <<>>
         /\ isSendingMessage' = TRUE
         /\ chatCalls' = Append(chatCalls,
                NewCall("view", JsonBody(Some(selectedModel), Some(userMessage.text))))
         /\ UNCHANGED <<models, selectedModel, loadingModels, errorModels, modelsCall>>

handleSendMessageSendsTrimmed ==
  IF Trim(chatInput) = <<>> \/ selectedModel = ""
    THEN UNCHANGED vars
    ELSE LET userMessage == [text |-> chatInput, sender |-> "user"] IN
         /\ messages' = Append(messages, userMessage)
         /\ chatInput' = <<>>
         /\ isSendingMessage' = TRUE
         /\ chatCalls' = Append(chatCalls,
                NewCall("view", JsonBody(Some(selectedModel), Some(Trim(userMessage.text)))))
         /\ UNCHANGED <<models, selectedModel, loadingModels, errorModels, modelsCall>>

handleSendMessage ==
  IF Trim(chatInput) = <<>> \/ selectedModel = ""
    THEN UNCHANGED vars
    ELSE LET userMessage == [text |-> chatInput, sender |-> "user"] IN
         /\ messages' = Append(messages, userMessage)
         /\ chatInput' = <<>>
         /\ isSendingMessage' = TRUE
         /\ chatCalls' = Append(chatCalls,
                NewCall("view", JsonBody(Some(selectedModel), Some(userMessage.text))))
         /\ UNCHANGED <<models, selectedModel, loadingModels, errorModels, modelsCall>>

(* <button onClick> *)
ClickSend ==
  /\ ReadyRendered
  /\ ~ButtonDisabled
  /\ UserCount < MaxSends
  /\ handleSendMessage

(* handleKeyDown: Enter without Shift *)
handleKeyDown ==
  /\ ReadyRendered
  /\ ~TextareaDisabled
  /\ UserCount < MaxSends
  /\ handleSendMessage

-----------------------------------------------------------------------------
(* Completion relay: POST /api/chat *)

StatusText(status) ==
  CASE status = 200 -> "OK"
    [] status = 400 -> "Bad Request"
    [] status = 500 -> "Internal Server Error"

JsonResponse(status, completion, message, error) ==
  [status |-> status, statusText |-> StatusText(status),
   completion |-> completion, message |-> message, error |-> error]

(* The handler's promise rejected: the framework answers 500 without a JSON body. *)
UnhandledResponse == JsonResponse(500, None, None, None)

Falsy(opt, empty) == opt = None \/ opt[1] = empty

(* request.json() and the destructuring of its result; None when they succeed *)
ParseError(body) ==
  CASE body.json = "malformed" -> Some(<<"Unexpected token">>)
    [] body.json = "null"      -> Some(<<"Cannot destructure property 'model'">>)
    [] OTHER                   -> None

(* The catch block.  `model` is declared inside the try block, so the        *)
(* template literal of the second branch raises a ReferenceError and the     *)
(* handler rejects.                                                          *)
catchBlockFallsThrough(error) ==
  IF includes(error, "404 Not Found") /\ ~includes(error, "connect ECONNREFUSED")
    THEN UnhandledResponse
    ELSE JsonResponse(500, None, Some(error), Some(error))

catchBlock(error) ==
  IF includes(error, "connect ECONNREFUSED")
    THEN JsonResponse(500, None,
           Some(<<"Could not connect to Ollama server. Is it running?">>), Some(error))
  ELSE IF includes(error, "404 Not Found")
    THEN UnhandledResponse
  ELSE JsonResponse(500, None, Some(error), Some(error))

Respond(call, thrown, resp) ==
  [call EXCEPT !.stage = "responded", !.thrown = thrown, !.resp = Some(resp)]

POSTStepTrimsPrompt(call) ==
  IF ParseError(call.body) # None
    THEN Respond(call, ParseError(call.body), catchBlock(ParseError(call.body)[1]))
  ELSE IF Falsy(call.body.model, "") \/ Falsy(call.body.prompt, <<>>)
    THEN Respond(call, None,
           JsonResponse(400, None, Some(<<"Missing model or prompt in request body.">>), None))
  ELSE [call EXCEPT !.stage = "backend",
          !.backendReq = Some([model |-> call.body.model[1],
                               messages |-> <<[role |-> "user",
                                               content |-> Trim(call.body.prompt[1])]>>])]

(* POST, from its entry to the await of ollama.chat (or to its return).     *)
(* backendReq is the argument of ollama.chat; content, set on its return,   *)
(* is response.message.content.                                             *)
POSTStep(call) ==
  IF ParseError(call.body) # None
    THEN Respond(call, ParseError(call.body), catchBlock(ParseError(call.body)[1]))
  ELSE IF Falsy(call.body.model, "") \/ Falsy(call.body.prompt, <<>>)
    THEN Respond(call, None,
           JsonResponse(400, None, Some(<<"Missing model or prompt in request body.">>), None))
  ELSE [call EXCEPT !.stage = "backend",
          !.backendReq = Some([model |-> call.body.model[1],
                               messages |-> <<[role |-> "user", content |-> call.body.prompt[1]]>>])]

POSTAt(i) ==
  /\ chatCalls[i].stage = "sent"
  /\ chatCalls' = [chatCalls EXCEPT ![i] = POSTStep(chatCalls[i])]
  /\ UNCHANGED <<viewVars, modelsCall>>

POST == \E i \in DOMAIN chatCalls : POSTAt(i)

(* POST, from the return of ollama.chat to its end *)
POSTReturnAt(i) ==
  /\ chatCalls[i].stage = "backend"
  /\ \/ \E content \in ChatCompletions :
          chatCalls' = [chatCalls EXCEPT ![i] =
             [Respond(@, None, JsonResponse(200, Some(content), None, None))
                EXCEPT !.content = Some(content)]]
     \/ \E error \in ChatErrors :
          chatCalls' = [chatCalls EXCEPT ![i] = Respond(@, Some(error), catchBlock(error))]
  /\ UNCHANGED <<viewVars, modelsCall>>

POSTReturn == \E i \in DOMAIN chatCalls : POSTReturnAt(i)

(* The view's fetch("/api/chat") rejects *)
ChatNetworkError ==
  \E i \in ViewCalls :
    /\ chatCalls[i].stage = "sent"
    /\ \E e \in NetworkErrors :
         chatCalls' = [chatCalls EXCEPT ![i] = [@ EXCEPT !.stage = "failed", !.thrown = Some(e)]]
    /\ UNCHANGED <<viewVars, modelsCall>>

(* Another HTTP client of the relay *)
DirectBodies ==
  { JsonBody(Some("missing-model"), Some(<<"a">>)),
    JsonBody(None, Some(<<"a">>)),
    JsonBody(Some(""), Some(<<"a">>)),
    JsonBody(Some("missing-model"), None),
    JsonBody(Some("missing-model"), Some(<<>>)),
    [json |-> "null", model |-> None, prompt |-> None],
    [json |-> "malformed", model |-> None, prompt |-> None] }

DirectRequest ==
  /\ DirectCalls = {}
  /\ \E body \in DirectBodies : chatCalls' = Append(chatCalls, NewCall("direct", body))
  /\ UNCHANGED <<viewVars, modelsCall>>

DirectResponse ==
  \E i \in DirectCalls :
    /\ chatCalls[i].stage = "responded"
    /\ chatCalls' = Remove(chatCalls, i)
    /\ UNCHANGED <<viewVars, modelsCall>>

-----------------------------------------------------------------------------
(* Conversation view: handleSendMessage, after its await *)

ErrorText(message) ==
  <<"Error: ">> \o (IF message # <<>> THEN message ELSE <<"Could not get response.">>)

ResponseMessageIgnoresStatus(call) ==
  IF call.stage = "failed"
    THEN [text |-> ErrorText(call.thrown[1]), sender |-> "model"]
  ELSE LET data == call.resp[1] IN
       [text |-> IF data.completion # None /\ data.completion[1] # <<>>
                   THEN data.completion[1] ELSE <<"No response from model.">>,
        sender |-> "model"]

ResponseMessageReadsMessageField(call) ==
  IF call.stage = "failed"
    THEN [text |-> ErrorText(call.thrown[1]), sender |-> "model"]
  ELSE IF call.resp[1].status # 200
    THEN [text |-> ErrorText(<<"Failed to get completion: ", call.resp[1].statusText>>),
          sender |-> "model"]
  ELSE LET data == call.resp[1] IN
       [text |-> IF data.message # None /\ data.message[1] # <<>>
                   THEN data.message[1] ELSE <<"No response from model.">>,
        sender |-> "model"]

ResponseMessage(call) ==
  IF call.stage = "failed"
    THEN [text |-> ErrorText(call.thrown[1]), sender |-> "model"]
  ELSE IF call.resp[1].status # 200
    THEN [text |-> ErrorText(<<"Failed to get completion: ", call.resp[1].statusText>>),
          sender |-> "model"]
  ELSE LET data == call.resp[1] IN
       [text |-> IF data.completion # None /\ data.completion[1] # <<>>
                   THEN data.completion[1] ELSE <<"No response from model.">>,
        sender |-> "model"]

handleSendMessageResumeStaysSending ==
  \E i \in ViewCalls :
    /\ chatCalls[i].stage \in {"responded", "failed"}
    /\ messages' = Append(messages, ResponseMessage(chatCalls[i]))
    /\ chatCalls' = Remove(chatCalls, i)
    /\ UNCHANGED <<models, selectedModel, chatInput, loadingModels, errorModels,
                   isSendingMessage, modelsCall>>

handleSendMessageResumeStaleMessages ==
  \E i \in ViewCalls :
    /\ chatCalls[i].stage \in {"responded", "failed"}
    /\ messages' = Append(SubSeq(messages, 1, Len(messages) - 1), ResponseMessage(chatCalls[i]))
    /\ isSendingMessage' = FALSE
    /\ chatCalls' = Remove(chatCalls, i)
    /\ UNCHANGED <<models, selectedModel, chatInput, loadingModels, errorModels, modelsCall>>

handleSendMessageResume ==
  \E i \in ViewCalls :
    /\ chatCalls[i].stage \in {"responded", "failed"}
    /\ messages' = Append(messages, ResponseMessage(chatCalls[i]))
    /\ isSendingMessage' = FALSE
    /\ chatCalls' = Remove(chatCalls, i)
    /\ UNCHANGED <<models, selectedModel, chatInput, loadingModels, errorModels, modelsCall>>

-----------------------------------------------------------------------------
(* The system *)

Init ==
  /\ models = <<>>
  /\ selectedModel = ""
  /\ chatInput = <<>>
  /\ messages = <<>>
  /\ loadingModels = TRUE
  /\ errorModels = None
  /\ isSendingMessage = FALSE
  /\ modelsCall = [stage |-> "sent", resp |-> None, err |-> None,
                   listed |-> None, thrown |-> None, listCalls |-> 0]
  /\ chatCalls = <<>>

Next ==
  \/ GET
  \/ ModelsNetworkError
  \/ fetchModels
  \/ SelectModel
  \/ TypeInput
  \/ ClickSend
  \/ handleKeyDown
  \/ POST
  \/ POSTReturn
  \/ ChatNetworkError
  \/ DirectRequest
  \/ DirectResponse
  \/ handleSendMessageResume

Spec == Init /\ [][Next]_vars

(* The catalog fetcher and fetchModels alone, over SizeCatalogs. *)
SizeNext ==
  \/ GETFrom(SizeCatalogs)
  \/ fetchModels

SizeSpec == Init /\ [][SizeNext]_vars

(* Every call the view issues is answered, and the view handles every answer. *)
FairSpec ==
  /\ Spec
  /\ WF_vars(GET)
  /\ WF_vars(fetchModels)
  /\ WF_vars(\E i \in ViewCalls : POSTAt(i))
  /\ WF_vars(\E i \in ViewCalls : POSTReturnAt(i))
  /\ WF_vars(handleSendMessageResume)

-----------------------------------------------------------------------------
TypeOK ==
  /\ chatInput \in Inputs
  /\ isSendingMessage \in BOOLEAN
  /\ loadingModels \in BOOLEAN
  /\ \A i \in DOMAIN messages : messages[i].sender \in {"user", "model"}

-----------------------------------------------------------------------------
(* Claims *)

Failed(call) ==
  call.stage = "failed" \/ (call.stage = "responded" /\ call.resp[1].status # 200)

FailedViewCalls == {chatCalls[i] : i \in {j \in ViewCalls : Failed(chatCalls[j])}}

MissingField(call) == Falsy(call.body.model, "") \/ Falsy(call.body.prompt, <<>>)

BackendThrew(call, tok) ==
  /\ call.stage = "responded"
  /\ call.backendReq # None
  /\ call.thrown # None
  /\ includes(call.thrown[1], tok)

(* C1: at most one completion request of the view is in flight at any time, *)
(* and one is in flight only while the view is Sending.                     *)
C1_SingleRequestInFlight ==
  /\ Cardinality(ViewCalls) <= 1
  /\ ViewCalls # {} => isSendingMessage

(* A request is pending and the send cap of the model is not what stops a second send. *)
C1_Witness ==
  /\ isSendingMessage
  /\ Cardinality(ViewCalls) = 1
  /\ UserCount < MaxSends

(* C2: a send action taken while the prompt is empty or whitespace-only     *)
(* issues no call and leaves the message sequence unchanged.                *)
C2_BlankSendIsNoOp ==
  [][(Trim(chatInput) = <<>> /\ (ClickSend \/ handleKeyDown))
       => UNCHANGED <<messages, chatCalls>>]_vars

(* Enter can be pressed on a whitespace-only prompt, in a conversation that has messages. *)
C2_Witness ==
  /\ chatInput = <<" ">>
  /\ ENABLED handleKeyDown
  /\ Len(messages) >= 2

(* C3: a relay request whose model or prompt is missing is answered 400 and *)
(* never reaches the backend chat endpoint.                                 *)
C3_MissingFieldIs400 ==
  \A i \in DOMAIN chatCalls :
    MissingField(chatCalls[i]) =>
      /\ chatCalls[i].stage # "backend"
      /\ chatCalls[i].backendReq = None
      /\ chatCalls[i].stage = "responded" => chatCalls[i].resp[1].status = 400

(* C4: when the backend reports the named model as not found, the relay     *)
(* answers 500 with a message that contains the requested model name.       *)
C4_ModelNotFoundNamesModel ==
  \A i \in DOMAIN chatCalls :
    (BackendThrew(chatCalls[i], "404 Not Found")
       /\ ~includes(chatCalls[i].thrown[1], "connect ECONNREFUSED")) =>
      /\ chatCalls[i].resp[1].status = 500
      /\ chatCalls[i].resp[1].message # None
      /\ includes(chatCalls[i].resp[1].message[1], chatCalls[i].body.model[1])

(* C5: when the backend chat call fails with connection refused, the relay  *)
(* answers 500 with the guidance to check that the server is running.       *)
C5_ConnectionRefusedGuidance ==
  \A i \in DOMAIN chatCalls :
    BackendThrew(chatCalls[i], "connect ECONNREFUSED") =>
      /\ chatCalls[i].resp[1].status = 500
      /\ chatCalls[i].resp[1].message =
           Some(<<"Could not connect to Ollama server. Is it running?">>)

C5_Witness ==
  \E i \in DOMAIN chatCalls : BackendThrew(chatCalls[i], "connect ECONNREFUSED")

Last(s) == s[Len(s)]

IsErrorMessage(m) == m.sender = "model" /\ Len(m.text) >= 2 /\ m.text[1] = "Error: "

(* C6: a failed completion request stays pending until the view handles it, *)
(* and handling it appends exactly one model message whose text starts with *)
(* "Error:" and issues no new request.                                      *)
C6_FailureSurfacedAsErrorMessage ==
  [][FailedViewCalls # {} =>
       \/ /\ FailedViewCalls' = FailedViewCalls
          /\ messages' = messages
       \/ /\ Len(messages') = Len(messages) + 1
          /\ SubSeq(messages', 1, Len(messages)) = messages
          /\ IsErrorMessage(Last(messages'))
          /\ Cardinality(ViewCalls') = Cardinality(ViewCalls) - 1
          /\ FailedViewCalls' = {}]_vars

(* A non-2xx relay answer and a network failure have both been surfaced. *)
C6_Witness ==
  /\ Len(messages) = 4
  /\ messages[2].text = <<"Error: ", "Failed to get completion: ", "Internal Server Error">>
  /\ messages[4].text = <<"Error: ", "Failed to fetch">>
  /\ ViewCalls = {}

(* C7: a step issues a request of the view exactly when it takes the view   *)
(* from Idle to Sending; a step that ends a request of the view appends     *)
(* exactly one model message and returns the view to Idle; and Sending      *)
(* leads to Idle.                                                           *)
C7_SendingLeadsToIdle ==
  /\ [][/\ (Cardinality(ViewCalls') > Cardinality(ViewCalls))
             <=> (~isSendingMessage /\ isSendingMessage')
        /\ (Cardinality(ViewCalls') < Cardinality(ViewCalls))
             <=> (isSendingMessage /\ ~isSendingMessage')
        /\ (isSendingMessage /\ ~isSendingMessage') =>
             /\ Len(messages') = Len(messages) + 1
             /\ SubSeq(messages', 1, Len(messages)) = messages
             /\ Last(messages').sender = "model"]_vars
  /\ (isSendingMessage ~> ~isSendingMessage)

(* Two sends have gone through Sending and back to Idle, one by a result and one by an error. *)
C7_Witness ==
  /\ ~isSendingMessage
  /\ Len(messages) = 4
  /\ messages[2].text = <<"hello">>
  /\ IsErrorMessage(messages[4])

(* C8: every step keeps the messages it finds, in place and unchanged, and  *)
(* every message carries the sender tag user or model.                      *)
C8_MessagesAppendOnly ==
  [][/\ IsPrefix(messages, messages')
     /\ \A i \in DOMAIN messages' : messages'[i].sender \in {"user", "model"}]_vars

C8_Witness ==
  /\ Len(messages) = 4
  /\ messages[1].sender = "user"
  /\ messages[4].sender = "model"

(* C9: once the catalog fetch is over, the selected model is empty or is    *)
(* the name of an entry of the loaded catalog.                              *)
C9_SelectedModelInCatalog ==
  ~loadingModels => (selectedModel = "" \/ selectedModel \in Names(models))

(* The user has selected the second entry of a loaded catalog. *)
C9_Witness ==
  /\ ~loadingModels
  /\ Len(models) = 2
  /\ selectedModel = models[2].name

(* C10: the step that ends a successful catalog fetch of at least one model *)
(* selects the first model of the returned sequence.                        *)
C10_FirstModelSelected ==
  [][(loadingModels /\ ~loadingModels' /\ errorModels' = None /\ Len(models') > 0)
       => selectedModel' = models'[1].name]_vars

C10_Witness ==
  /\ ~loadingModels
  /\ Len(models) = 2
  /\ selectedModel = models[1].name
  /\ modelsCall.stage = "done"
  /\ messages = <<>>

FetchFailed ==
  \/ modelsCall.stage = "failed"
  \/ modelsCall.stage = "responded" /\ modelsCall.resp[1].status # 200

(* C11: the view starts in LoadingModels and never returns to it; the step  *)
(* that leaves it goes to ModelsError exactly when the catalog fetch failed *)
(* and to Ready otherwise; ModelsError is never left; and no completion     *)
(* request of the view exists, and no message, in LoadingModels or          *)
(* ModelsError.                                                             *)
C11_LoadingThenErrorOrReady ==
  /\ (loadingModels = TRUE /\ errorModels = None)
  /\ [][/\ ~loadingModels => ~loadingModels'
        /\ (loadingModels /\ ~loadingModels') =>
             /\ FetchFailed <=> ModelsErrorRendered'
             /\ ~FetchFailed <=> ReadyRendered'
        /\ ModelsErrorRendered => ModelsErrorRendered'
        /\ (loadingModels' \/ ModelsErrorRendered') =>
             /\ ViewCalls' = {}
             /\ messages' = <<>>
             /\ ~isSendingMessage']_vars

(* ModelsError has been entered from a non-2xx answer of the catalog fetcher. *)
C11_Witness ==
  /\ ModelsErrorRendered
  /\ errorModels = Some(<<"HTTP error! status: ", "500">>)
  /\ modelsCall.stage = "done"

(* C12: for a request with a model and a prompt, the argument of the        *)
(* backend chat call is the received model and the single message           *)
(* [role user, content = the received prompt], both unchanged.              *)
C12_ForwardedRequestExact ==
  \A i \in DOMAIN chatCalls :
    (~MissingField(chatCalls[i]) /\ chatCalls[i].stage \in {"backend", "responded"}) =>
      chatCalls[i].backendReq =
        Some([model |-> chatCalls[i].body.model[1],
              messages |-> <<[role |-> "user", content |-> chatCalls[i].body.prompt[1]]>>])

(* A prompt padded with whitespace has been forwarded. *)
C12_Witness ==
  \E i \in DOMAIN chatCalls :
    /\ chatCalls[i].backendReq # None
    /\ chatCalls[i].body.prompt = Some(<<" ", "a", " ">>)
    /\ chatCalls[i].stage = "backend"

RelayReturnsContent ==
  \A i \in DOMAIN chatCalls :
    chatCalls[i].content # None =>
      /\ chatCalls[i].stage = "responded"
      /\ chatCalls[i].resp[1].status = 200
      /\ chatCalls[i].resp[1].completion = chatCalls[i].content

ViewCallEnds == Cardinality(ViewCalls') < Cardinality(ViewCalls)

(* C13, as claimed: the relay answers a successful backend call with 200    *)
(* and the backend's text, and the view appends a model message whose text  *)
(* is that text.                                                            *)
C13_CompletionShownVerbatim ==
  /\ []RelayReturnsContent
  /\ [][\A i \in ViewCalls :
          (chatCalls[i].content # None /\ ViewCallEnds) =>
            messages' = Append(messages,
                          [text |-> chatCalls[i].content[1], sender |-> "model"])]_vars

(* C13, amended: as claimed, except that for an empty completion the text   *)
(* of the appended model message is "No response from model.".             *)
C13_CompletionShownOrPlaceholder ==
  /\ []RelayReturnsContent
  /\ [][\A i \in ViewCalls :
          (chatCalls[i].content # None /\ ViewCallEnds) =>
            messages' = Append(messages,
                          [text |-> IF chatCalls[i].content[1] # <<>>
                                      THEN chatCalls[i].content[1]
                                      ELSE <<"No response from model.">>,
                           sender |-> "model"])]_vars

(* A completion and an empty completion have both been shown. *)
C13_Witness ==
  /\ Len(messages) = 4
  /\ messages[2] = [text |-> <<"hello">>, sender |-> "model"]
  /\ messages[4] = [text |-> <<"No response from model.">>, sender |-> "model"]

RoundsTo(size, n) ==
  LET k == n * 1024 - 100 * size.mib IN
  /\ k >= -1024
  /\ k <= 1024
  /\ k * 1048576 - 100 * size.rem > -536870912
  /\ k * 1048576 - 100 * size.rem <= 536870912

Rendered(n) ==
  <<ToString(n \div 100), ".", ToString((n % 100) \div 10), ToString(n % 10), " GB">>

(* C15: the size of every listed model is rendered as its gigabytes,        *)
(* rounded to the nearest hundredth, with two decimals and " GB"; a size of *)
(* 2147483648 bytes (2048 MiB) is rendered "2.00 GB".                      *)
C15_SizeRenderedInGB ==
  modelsCall.listed # None =>
    \A i \in DOMAIN modelsCall.listed[1] :
      LET size == modelsCall.listed[1][i].size
          rendered == modelsCall.resp[1].models[1][i].size
      IN  /\ \E n \in 0 .. ((size.mib + 1) * 100) \div 1024 + 1 :
               RoundsTo(size, n) /\ rendered = Rendered(n)
          /\ size = [mib |-> 2048, rem |-> 0] => rendered = <<"2", ".", "0", "0", " GB">>

C15_Witness ==
  /\ modelsCall.listed # None
  /\ Len(modelsCall.listed[1]) = 1
  /\ modelsCall.listed[1][1].size = [mib |-> 2048, rem |-> 0]
  /\ modelsCall.resp[1].models[1][1].size = <<"2", ".", "0", "0", " GB">>

ModelCount == Cardinality({i \in DOMAIN messages : messages[i].sender = "model"})

(* C16: the messages alternate user, model, user, model, ..., starting with *)
(* a user message; there is one more user message than model messages      *)
(* while the view is Sending and as many while it is Idle; and the pending  *)
(* request is the one of the last message, so that its answer is appended   *)
(* right after the user message that produced it.                           *)
C16_MessagesAlternate ==
  /\ \A i \in DOMAIN messages :
       messages[i].sender = IF i % 2 = 1 THEN "user" ELSE "model"
  /\ UserCount = ModelCount + (IF isSendingMessage THEN 1 ELSE 0)
  /\ \A i \in ViewCalls :
       /\ messages # <<>>
       /\ Last(messages).sender = "user"
       /\ chatCalls[i].body.prompt = Some(Last(messages).text)

(* A second request is pending after a completed exchange. *)
C16_Witness ==
  /\ isSendingMessage
  /\ Len(messages) = 3
  /\ messages[3].sender = "user"

ViewBodies == {chatCalls[i].body : i \in ViewCalls}

(* C17: a step that issues a request of the view sends the model selected   *)
(* before the step and the untrimmed input, which is also the text of the   *)
(* user message it appends; a request in flight keeps its body until it     *)
(* ends; and a change of the selected model while a request is pending      *)
(* leaves the calls, the messages and the Sending state as they are.        *)
C17_RequestCarriesSelectionAtSend ==
  [][/\ (Cardinality(ViewCalls') > Cardinality(ViewCalls)) =>
          /\ chatCalls' = Append(chatCalls,
                            NewCall("view", JsonBody(Some(selectedModel), Some(chatInput))))
          /\ messages' = Append(messages, [text |-> chatInput, sender |-> "user"])
     /\ (ViewCalls # {} /\ ViewCalls' # {}) => ViewBodies' = ViewBodies
     /\ (isSendingMessage /\ selectedModel' # selectedModel) =>
          UNCHANGED <<chatCalls, messages, isSendingMessage>>]_vars

(* The selected model has been changed while a request with a padded prompt is pending. *)
C17_Witness ==
  /\ isSendingMessage
  /\ \E i \in ViewCalls :
       /\ chatCalls[i].body.model # Some(selectedModel)
       /\ chatCalls[i].body.prompt = Some(<<" ", "a", " ">>)
       /\ chatCalls[i].stage = "sent"

====
